---- MODULE Spec2Model ----
(***************************************************************************)
(* Model of the fs-router core: the route-file parser (parser.ts) and the  *)
(* router factory (factory.ts).                                            *)
(*                                                                         *)
(* Strings are sequences of one-character strings, so that the regular     *)
(* expressions, the character loop of the tokenizer and the slash          *)
(* normalisation of parseRouteFile are modelled by what they do to the     *)
(* characters.  Paths are POSIX paths (getPathSep() = "/").                *)
(***************************************************************************)
EXTENDS Integers, Sequences, FiniteSets, TLC

(***************************************************************************)
(* Bounds                                                                  *)
(***************************************************************************)
MaxTokens == 3      \* segment tokens in one generated file path
MaxEntries == 3     \* leaf entries (files, empty directories) in a routes directory
MaxDriven == 2      \* entries of a directory of a run with a chosen adapter and option

(***************************************************************************)
(* String helpers (JavaScript String methods)                              *)
(***************************************************************************)
Slash == "/"
Dot == "."

endsWith(s, suf) ==
    /\ Len(s) >= Len(suf)
    /\ SubSeq(s, Len(s) - Len(suf) + 1, Len(s)) = suf

startsWith(s, pre) ==
    /\ Len(s) >= Len(pre)
    /\ SubSeq(s, 1, Len(pre)) = pre

\* s.slice(from): the closing bracket is not cut off
sliceToEnd(s, from) == SubSeq(s, from + 1, Len(s))

\* s.slice(from, -1) with a 0-based from
sliceToLast(s, from) == SubSeq(s, from + 1, Len(s) - 1)

RECURSIVE splitOn(_, _, _, _)
\* s.split(sepChar): acc holds the finished pieces, cur the piece in progress
splitOn(s, sepChar, acc, cur) ==
    IF s = <<>> THEN Append(acc, cur)
    ELSE IF Head(s) = sepChar THEN splitOn(Tail(s), sepChar, Append(acc, cur), <<>>)
    ELSE splitOn(Tail(s), sepChar, acc, Append(cur, Head(s)))

split(s, sepChar) == splitOn(s, sepChar, <<>>, <<>>)

RECURSIVE join(_, _)
\* parts.join(sepChar)
join(parts, sepChar) ==
    IF parts = <<>> THEN <<>>
    ELSE IF Len(parts) = 1 THEN parts[1]
    ELSE parts[1] \o <<sepChar>> \o join(Tail(parts), sepChar)

RECURSIVE collapseSlashes(_)
\* s.replace(/\/+/g, '/')
collapseSlashes(s) ==
    IF Len(s) < 2 THEN s
    ELSE IF s[1] = Slash /\ s[2] = Slash THEN collapseSlashes(Tail(s))
    ELSE <<s[1]>> \o collapseSlashes(Tail(s))

(***************************************************************************)
(* Literals of parser.ts                                                   *)
(***************************************************************************)
RouteTs == <<"r","o","u","t","e",".","t","s">>
RouteJs == <<"r","o","u","t","e",".","j","s">>
MiddlewareTs == <<"m","i","d","d","l","e","w","a","r","e",".","t","s">>
MiddlewareJs == <<"m","i","d","d","l","e","w","a","r","e",".","j","s">>
DotRouteTs == <<Dot>> \o RouteTs
DotRouteJs == <<Dot>> \o RouteJs
DotMiddlewareTs == <<Dot>> \o MiddlewareTs
DotMiddlewareJs == <<Dot>> \o MiddlewareJs
SlashRouteTs == <<Slash>> \o RouteTs
SlashRouteJs == <<Slash>> \o RouteJs
IndexName == <<"i","n","d","e","x">>
CatchAllOpen == <<"[",".",".",".">>

\* the resolved routes directory, pathResolve(getCwd(), routesDir)
RoutesDir == <<Slash, "r">>

getPathSep == Slash

pathJoin(dir, entry) == collapseSlashes(dir \o <<Slash>> \o entry)

\* path.relative(from, to) for a `to` below `from`
pathRelative(from, to) ==
    IF startsWith(to, from \o <<Slash>>)
    THEN SubSeq(to, Len(from) + 2, Len(to))
    ELSE to

(***************************************************************************)
(* parseRouteFile                                                          *)
(***************************************************************************)
\* .replace(/\.middleware\.(ts|js)$/, '')
replaceMiddlewareSuffix(s) ==
    IF endsWith(s, DotMiddlewareTs) \/ endsWith(s, DotMiddlewareJs)
    THEN SubSeq(s, 1, Len(s) - Len(DotMiddlewareTs)) ELSE s

\* .replace(/\.route\.(ts|js)$/, '')
replaceRouteSuffix(s) ==
    IF endsWith(s, DotRouteTs) \/ endsWith(s, DotRouteJs)
    THEN SubSeq(s, 1, Len(s) - Len(DotRouteTs)) ELSE s

\* .replace(/\/route\.(ts|js)$/, '')
replaceSlashRoute(s) ==
    IF endsWith(s, SlashRouteTs) \/ endsWith(s, SlashRouteJs)
    THEN SubSeq(s, 1, Len(s) - Len(SlashRouteTs)) ELSE s

\* .replace(/^route\.(ts|js)$/, '')
replaceBareRoute(s) ==
    IF s = RouteTs \/ s = RouteJs THEN <<>> ELSE s

pathPartOf(relativePath) ==
    replaceBareRoute(replaceSlashRoute(replaceRouteSuffix(
        replaceMiddlewareSuffix(relativePath))))

\* filter(p => p): `index` parts are not dropped
keepPartNonEmpty(p) == p # <<>>

keepPart(p) == p # <<>> /\ p # IndexName

partsOf(pathPart) == SelectSeq(split(pathPart, getPathSep), keepPart)

RECURSIVE scanChars(_, _, _, _)
\* the character loop over one part: dots outside brackets end a segment
scanChars(part, segments, currentSegment, inBrackets) ==
    IF part = <<>>
    THEN IF currentSegment # <<>> THEN Append(segments, currentSegment) ELSE segments
    ELSE LET char == Head(part) IN
         IF char = "[" THEN scanChars(Tail(part), segments, Append(currentSegment, char), TRUE)
         ELSE IF char = "]" THEN scanChars(Tail(part), segments, Append(currentSegment, char), FALSE)
         ELSE IF char = Dot /\ ~inBrackets
              THEN IF currentSegment # <<>>
                   THEN scanChars(Tail(part), Append(segments, currentSegment), <<>>, inBrackets)
                   ELSE scanChars(Tail(part), segments, currentSegment, inBrackets)
         ELSE scanChars(Tail(part), segments, Append(currentSegment, char), inBrackets)

\* the part is not cut at its dots
segmentsOfWhole(part) == IF part = <<>> THEN <<>> ELSE <<part>>

\* the dot-segments of a part without those that are the text index
segmentsOfNoIndex(part) ==
    SelectSeq(scanChars(part, <<>>, <<>>, FALSE), LAMBDA segment : segment # IndexName)

segmentsOf(part) == scanChars(part, <<>>, <<>>, FALSE)

isCatchAllSegment(segment) == startsWith(segment, CatchAllOpen) /\ endsWith(segment, <<"]">>)

isDynamicSegment(segment) == startsWith(segment, <<"[">>) /\ endsWith(segment, <<"]">>)

RECURSIVE convertSegments(_, _)
\* the loop over the segments of one part; acc = [paramNames, convertedParts, hasCatchAll]
convertSegments(segments, acc) ==
    IF segments = <<>> THEN acc
    ELSE LET segment == Head(segments) IN
         IF isCatchAllSegment(segment)
         THEN [acc EXCEPT !.paramNames = Append(@, sliceToLast(segment, 4)),
                          !.hasCatchAll = TRUE]
         ELSE IF isDynamicSegment(segment)
         THEN convertSegments(Tail(segments),
                  [acc EXCEPT !.paramNames = Append(@, sliceToLast(segment, 1)),
                              !.convertedParts = Append(@, <<":">> \o sliceToLast(segment, 1))])
         ELSE convertSegments(Tail(segments),
                  [acc EXCEPT !.convertedParts = Append(@, segment)])

RECURSIVE convertPartsNoBreak(_, _)
\* the loop over the parts without `if (hasCatchAll) break`
convertPartsNoBreak(parts, acc) ==
    IF parts = <<>> THEN acc
    ELSE convertPartsNoBreak(Tail(parts), convertSegments(segmentsOf(Head(parts)), acc))

RECURSIVE convertParts(_, _)
\* the loop over the parts, left when a catch-all was met
convertParts(parts, acc) ==
    IF parts = <<>> THEN acc
    ELSE LET next == convertSegments(segmentsOf(Head(parts)), acc) IN
         IF next.hasCatchAll THEN next ELSE convertParts(Tail(parts), next)

\* the leading '/' is forgotten
compilePathNoLeadingSlash(convertedParts, hasCatchAll) ==
    LET path == collapseSlashes(join(convertedParts, Slash))
    IN IF hasCatchAll THEN path \o <<Slash, "*">> ELSE path

\* the slashes are collapsed after '/*' is appended
compilePathCollapseLast(convertedParts, hasCatchAll) ==
    LET path == <<Slash>> \o join(convertedParts, Slash)
    IN collapseSlashes(IF hasCatchAll THEN path \o <<Slash, "*">> ELSE path)

compilePath(convertedParts, hasCatchAll) ==
    LET path == collapseSlashes(<<Slash>> \o join(convertedParts, Slash))
    IN IF hasCatchAll THEN path \o <<Slash, "*">> ELSE path

isMiddlewareFile(filePath) ==
    endsWith(filePath, DotMiddlewareTs) \/ endsWith(filePath, DotMiddlewareJs)

\* a compilation that appends /* to the path of every middleware file
parseRouteFileMiddlewareStar(filePath, routesDir) ==
    LET relativePath == pathRelative(routesDir, filePath)
        parts == partsOf(pathPartOf(relativePath))
        acc == convertParts(parts, [paramNames |-> <<>>, convertedParts |-> <<>>,
                                    hasCatchAll |-> FALSE])
    IN [path |-> compilePath(acc.convertedParts,
                             acc.hasCatchAll \/ isMiddlewareFile(filePath)),
        paramNames |-> acc.paramNames,
        filePath |-> filePath,
        handlers |-> <<>>,
        isMiddleware |-> isMiddlewareFile(filePath)]

parseRouteFile(filePath, routesDir) ==
    LET relativePath == pathRelative(routesDir, filePath)
        parts == partsOf(pathPartOf(relativePath))
        acc == convertParts(parts, [paramNames |-> <<>>, convertedParts |-> <<>>,
                                    hasCatchAll |-> FALSE])
    IN [path |-> compilePath(acc.convertedParts, acc.hasCatchAll),
        paramNames |-> acc.paramNames,
        filePath |-> filePath,
        handlers |-> <<>>,
        isMiddleware |-> isMiddlewareFile(filePath)]

(***************************************************************************)
(* The routes directory                                                    *)
(*                                                                         *)
(* A directory is the ordered list of its leaf entries (files and empty    *)
(* directories); the directories in between are implied.  An entry is kept *)
(* as the tokens it was built from: toks[i] is followed by the separator   *)
(* seps[i], and the stem ends the name.  readDirSync lists the children of *)
(* a directory in the order in which they first occur in the list.         *)
(***************************************************************************)
RECURSIVE flattenFrom(_, _, _)
flattenFrom(toks, seps, i) ==
    IF i > Len(toks) THEN <<>>
    ELSE toks[i] \o <<seps[i]>> \o flattenFrom(toks, seps, i + 1)

\* the path of an entry relative to the routes directory
relOf(e) == flattenFrom(e.toks, e.seps, 1) \o e.stem

absOf(e) == pathJoin(RoutesDir, relOf(e))

RECURSIVE dedup(_, _)
dedup(names, seen) ==
    IF names = <<>> THEN <<>>
    ELSE IF Head(names) \in seen THEN dedup(Tail(names), seen)
    ELSE <<Head(names)>> \o dedup(Tail(names), seen \cup {Head(names)})

\* the name of the child of dir on the way to the absolute path p
childName(dir, p) == split(SubSeq(p, Len(dir) + 2, Len(p)), Slash)[1]

isBelow(dir, p) == startsWith(p, dir \o <<Slash>>)

readDirSync(dirEntries, dir) ==
    LET below == SelectSeq(dirEntries, LAMBDA e : isBelow(dir, absOf(e)))
    IN dedup([i \in 1..Len(below) |-> childName(dir, absOf(below[i]))], {})

\* getStatSync(fullPath).isDirectory()
isDirectory(dirEntries, fullPath) ==
    \E i \in 1..Len(dirEntries) :
        \/ isBelow(fullPath, absOf(dirEntries[i]))
        \/ absOf(dirEntries[i]) = fullPath /\ dirEntries[i].isDir

(***************************************************************************)
(* parseRoutes                                                             *)
(***************************************************************************)
\* the bare route.ts / route.js names are not accepted
qualifiesSuffixOnly(entry) ==
    \/ endsWith(entry, DotRouteTs) \/ endsWith(entry, DotRouteJs)
    \/ endsWith(entry, DotMiddlewareTs) \/ endsWith(entry, DotMiddlewareJs)

\* the bare middleware.ts / middleware.js names are accepted as well
qualifiesBareMiddleware(entry) ==
    \/ endsWith(entry, DotRouteTs) \/ endsWith(entry, DotRouteJs)
    \/ endsWith(entry, DotMiddlewareTs) \/ endsWith(entry, DotMiddlewareJs)
    \/ entry = RouteTs \/ entry = RouteJs
    \/ entry = MiddlewareTs \/ entry = MiddlewareJs

\* every .ts or .js file is taken for a route file
qualifiesAnySource(entry) ==
    \/ endsWith(entry, <<".", "t", "s">>) \/ endsWith(entry, <<".", "j", "s">>)

qualifies(entry) ==
    \/ endsWith(entry, DotRouteTs) \/ endsWith(entry, DotRouteJs)
    \/ endsWith(entry, DotMiddlewareTs) \/ endsWith(entry, DotMiddlewareJs)
    \/ entry = RouteTs \/ entry = RouteJs

RECURSIVE scanDirectory(_, _, _)
RECURSIVE scanEntries(_, _, _, _)
\* the for loop of scanDirectory over the entries of dir; routes accumulates
scanEntries(dirEntries, dir, entries, routes) ==
    IF entries = <<>> THEN routes
    ELSE LET entry == Head(entries)
             fullPath == pathJoin(dir, entry)
             after == IF isDirectory(dirEntries, fullPath)
                      THEN scanDirectory(dirEntries, fullPath, routes)
                      ELSE IF qualifies(entry)
                      THEN Append(routes, parseRouteFile(fullPath, RoutesDir))
                      ELSE routes
         IN scanEntries(dirEntries, dir, Tail(entries), after)

scanDirectory(dirEntries, dir, routes) ==
    scanEntries(dirEntries, dir, readDirSync(dirEntries, dir), routes)

\* a.path.split('/').length
depthOf(path) == Len(split(path, Slash))

\* String.prototype.localeCompare is the host's collation.  With ICU (Node,
\* Deno, Bun) punctuation sorts before letters in the order below; a build
\* without Intl compares code units.
IcuOrder == <<":", "/", ".", "[", "]", "*",
              "a","b","c","d","e","f","g","h","i","j","k","l","m",
              "n","o","p","q","r","s","t","u","v","w","x","y","z">>
CodeUnitOrder == <<"*", ".", "/", ":", "[", "]",
              "a","b","c","d","e","f","g","h","i","j","k","l","m",
              "n","o","p","q","r","s","t","u","v","w","x","y","z">>

Collations == {"icu", "codeunit"}

rankOf(c, coll) ==
    LET order == IF coll = "icu" THEN IcuOrder ELSE CodeUnitOrder
    IN CHOOSE i \in 1..Len(order) : order[i] = c

RECURSIVE localeCompare(_, _, _)
\* s.localeCompare(t): negative, zero or positive
localeCompare(s, t, coll) ==
    IF s = <<>> /\ t = <<>> THEN 0
    ELSE IF s = <<>> THEN -1
    ELSE IF t = <<>> THEN 1
    ELSE IF Head(s) = Head(t) THEN localeCompare(Tail(s), Tail(t), coll)
    ELSE IF rankOf(Head(s), coll) < rankOf(Head(t), coll) THEN -1 ELSE 1

\* the comparator without its two middleware lines
compareRoutesNoClass(a, b, coll) ==
    IF depthOf(a.path) # depthOf(b.path) THEN depthOf(b.path) - depthOf(a.path)
    ELSE localeCompare(b.path, a.path, coll)

\* the comparator ending in a.path.localeCompare(b.path)
compareRoutesAscending(a, b, coll) ==
    IF a.isMiddleware /\ ~b.isMiddleware THEN -1
    ELSE IF ~a.isMiddleware /\ b.isMiddleware THEN 1
    ELSE IF depthOf(a.path) # depthOf(b.path) THEN depthOf(b.path) - depthOf(a.path)
    ELSE localeCompare(a.path, b.path, coll)

\* the comparator handed to routes.sort
compareRoutes(a, b, coll) ==
    IF a.isMiddleware /\ ~b.isMiddleware THEN -1
    ELSE IF ~a.isMiddleware /\ b.isMiddleware THEN 1
    ELSE IF depthOf(a.path) # depthOf(b.path) THEN depthOf(b.path) - depthOf(a.path)
    ELSE localeCompare(b.path, a.path, coll)

RECURSIVE insertSorted(_, _, _)
\* insert r after every element that does not compare greater (stable)
insertSorted(sorted, r, coll) ==
    IF sorted = <<>> THEN <<r>>
    ELSE IF compareRoutes(Head(sorted), r, coll) <= 0
         THEN <<Head(sorted)>> \o insertSorted(Tail(sorted), r, coll)
         ELSE <<r>> \o sorted

RECURSIVE sortRoutes(_, _, _)
\* Array.prototype.sort, which is stable
sortRoutes(rs, sorted, coll) ==
    IF rs = <<>> THEN sorted
    ELSE sortRoutes(Tail(rs), insertSorted(sorted, Head(rs), coll), coll)

\* a parse that keeps one descriptor per compiled path
parseRoutesOnePerPath(dirEntries, coll) ==
    LET rs == sortRoutes(scanDirectory(dirEntries, RoutesDir, <<>>), <<>>, coll)
        kept[n \in 0..Len(rs)] ==
            IF n = 0 THEN <<>>
            ELSE IF \E j \in 1..(n - 1) : rs[j].path = rs[n].path
                 THEN kept[n - 1]
                 ELSE Append(kept[n - 1], rs[n])
    IN kept[Len(rs)]

parseRoutes(dirEntries, coll) ==
    sortRoutes(scanDirectory(dirEntries, RoutesDir, <<>>), <<>>, coll)

(***************************************************************************)
(* State                                                                   *)
(***************************************************************************)
VARIABLES
    fs,         \* the routes directory: its leaf entries in listing order
    collation,  \* the collation of the host's localeCompare
    pc,         \* "start", "parsed", "loading", "done" or "rejected"
    routes,     \* the descriptors parseRoutes returned, handlers attached by the load
    idx,        \* the number of the descriptor being loaded
    calls,      \* the imports and adapter calls made so far, in order
    modules,    \* the export names of the modules the imports resolved to, in order
    adapter,    \* the adapter createRouter is given
    app,        \* the calls the adapter has made on its framework, in order
    verbose,    \* options.verbose: "true", "false" or "absent"
    console,    \* the lines written with console.log, in order
    quietCalls  \* the calls of the same run made with verbose false

vars == <<fs, collation, pc, routes, idx, calls, modules,
          adapter, app, verbose, console, quietCalls>>

(***************************************************************************)
(* loadRouteHandlers and the adapter the factory drives                    *)
(***************************************************************************)
\* the value of a property the module does not export
Undefined == [file |-> <<>>, export |-> "undefined"]

HandlerKeys == {"GET", "POST", "PUT", "DELETE", "PATCH", "HEAD", "OPTIONS", "default"}

\* a load that copies every export of the module
loadRouteHandlersAllExports(route, moduleExports) ==
    [route EXCEPT !.handlers =
        [k \in HandlerKeys \cup moduleExports |->
            IF k \in moduleExports THEN [file |-> route.filePath, export |-> k]
            ELSE Undefined]]

\* a module is the set of names it exports; an exported function is named by
\* its file and its export name
loadRouteHandlers(route, moduleExports) ==
    [route EXCEPT !.handlers =
        [k \in HandlerKeys |->
            IF k \in moduleExports THEN [file |-> route.filePath, export |-> k]
            ELSE Undefined]]

\* the order of the keys of the handlers object of loadRouteHandlers
MethodOrderOfHandlers == <<"GET", "POST", "PUT", "DELETE", "PATCH", "HEAD", "OPTIONS">>

\* the order of the seven `if (route.handlers.X) methods.push(...)` lines
MethodOrder == <<"GET", "POST", "PUT", "DELETE", "PATCH", "OPTIONS", "HEAD">>

\* registeredMethods.push(method) without the conversion
toLowerCaseOmitted(method) == method

toLowerCase(method) ==
    CASE method = "GET" -> "get"
      [] method = "POST" -> "post"
      [] method = "PUT" -> "put"
      [] method = "DELETE" -> "delete"
      [] method = "PATCH" -> "patch"
      [] method = "OPTIONS" -> "options"
      [] method = "HEAD" -> "head"
      [] OTHER -> method

\* the adapter of 'should transform paths using adapter':
\* path.replace('/', '/api') rewrites the first slash
replaceFirstSlash(path) ==
    IF \E i \in 1..Len(path) : path[i] = Slash
    THEN LET i == CHOOSE k \in 1..Len(path) :
                      path[k] = Slash /\ \A j \in 1..(k - 1) : path[j] # Slash
         IN SubSeq(path, 1, i) \o <<"a", "p", "i">> \o SubSeq(path, i + 1, Len(path))
    ELSE path

\* ExpressAdapter.transformPath: path.replace(/\*/g, '*')
replaceStars(path) == [k \in 1..Len(path) |-> IF path[k] = "*" THEN "*" ELSE path[k]]

Adapters == {"recording", "hono", "koa", "fastify", "express"}

\* adapter.transformPath(path)
transformPath(path) ==
    CASE adapter = "recording" -> replaceFirstSlash(path)
      [] adapter = "express" -> replaceStars(path)
      [] OTHER -> path

NoHandler == [file |-> <<>>, export |-> "none"]

\* one observable step of a createRouter run
Event(op, i, path, method, handler, methods) ==
    [op |-> op, route |-> i, path |-> path, method |-> method,
     handler |-> handler, methods |-> methods]

ImportEvent(i, route) == Event("import", i, route.filePath, "", NoHandler, <<>>)

\* no test of the handler before it is registered
truthyAlways(h) == TRUE

truthy(h) == h # Undefined

\* `methods`: the exported methods in the fixed order
methodsOf(route) == SelectSeq(MethodOrder, LAMBDA m : truthy(route.handlers[m]))

\* the loop body with a middleware handler chosen as GET || default
registerEventsGetFirst(route, i) ==
    LET transformedPath == transformPath(route.path)
        first == <<Event("transformPath", i, route.path, "", NoHandler, <<>>)>>
    IN IF route.isMiddleware
       THEN LET handler == IF truthy(route.handlers["GET"])
                           THEN route.handlers["GET"] ELSE route.handlers["default"]
            IN IF truthy(handler)
               THEN first \o <<Event("registerMiddleware", i, transformedPath, "", handler, <<>>)>>
               ELSE first
       ELSE LET methods == methodsOf(route)
                registeredMethods == [k \in 1..Len(methods) |-> toLowerCase(methods[k])]
                routeCalls == [k \in 1..Len(methods) |->
                                  Event("registerRoute", i, transformedPath, methods[k],
                                        route.handlers[methods[k]], <<>>)]
            IN IF truthy(route.handlers["default"])
               THEN first \o routeCalls \o
                    <<Event("registerDefaultHandler", i, transformedPath, "",
                            route.handlers["default"], registeredMethods)>>
               ELSE first \o routeCalls

\* the loop body with the default handler registered on route.path
registerEventsRawPath(route, i) ==
    LET transformedPath == transformPath(route.path)
        first == <<Event("transformPath", i, route.path, "", NoHandler, <<>>)>>
    IN IF route.isMiddleware
       THEN LET handler == IF truthy(route.handlers["default"])
                           THEN route.handlers["default"] ELSE route.handlers["GET"]
            IN IF truthy(handler)
               THEN first \o <<Event("registerMiddleware", i, transformedPath, "", handler, <<>>)>>
               ELSE first
       ELSE LET methods == methodsOf(route)
                registeredMethods == [k \in 1..Len(methods) |-> toLowerCase(methods[k])]
                routeCalls == [k \in 1..Len(methods) |->
                                  Event("registerRoute", i, transformedPath, methods[k],
                                        route.handlers[methods[k]], <<>>)]
            IN IF truthy(route.handlers["default"])
               THEN first \o routeCalls \o
                    <<Event("registerDefaultHandler", i, route.path, "",
                            route.handlers["default"], registeredMethods)>>
               ELSE first \o routeCalls

\* the body of the for loop of createRouter after the await, for route number i
registerEvents(route, i) ==
    LET transformedPath == transformPath(route.path)
        first == <<Event("transformPath", i, route.path, "", NoHandler, <<>>)>>
    IN IF route.isMiddleware
       THEN LET handler == IF truthy(route.handlers["default"])
                           THEN route.handlers["default"] ELSE route.handlers["GET"]
            IN IF truthy(handler)
               THEN first \o <<Event("registerMiddleware", i, transformedPath, "", handler, <<>>)>>
               ELSE first
       ELSE LET methods == methodsOf(route)
                registeredMethods == [k \in 1..Len(methods) |-> toLowerCase(methods[k])]
                routeCalls == [k \in 1..Len(methods) |->
                                  Event("registerRoute", i, transformedPath, methods[k],
                                        route.handlers[methods[k]], <<>>)]
            IN IF truthy(route.handlers["default"])
               THEN first \o routeCalls \o
                    <<Event("registerDefaultHandler", i, transformedPath, "",
                            route.handlers["default"], registeredMethods)>>
               ELSE first \o routeCalls

(***************************************************************************)
(* The logger                                                              *)
(***************************************************************************)
\* options.verbose || false
verboseOf(option) == option = "true"

\* method.toUpperCase() of logHandler, on the names createRouter passes
toUpperCase(method) ==
    CASE method = "Middleware" -> "MIDDLEWARE"
      [] method = "default" -> "DEFAULT"
      [] OTHER -> method

\* logger.logRoute(type, path, filePath): one console line when verbose
logRoute(isVerbose, type, path, filePath) ==
    IF isVerbose
    THEN <<[line |-> "route", type |-> type, path |-> path, filePath |-> filePath,
            isDefault |-> FALSE]>>
    ELSE <<>>

\* logger.logHandler(method, path, isDefault): one console line when verbose
logHandler(isVerbose, method, path, isDefault) ==
    IF isVerbose
    THEN <<[line |-> "handler", type |-> toUpperCase(method), path |-> path,
            filePath |-> <<>>, isDefault |-> isDefault]>>
    ELSE <<>>

RECURSIVE logHandlers(_, _)
\* the logHandler call that follows each registration call
logHandlers(isVerbose, events) ==
    IF events = <<>> THEN <<>>
    ELSE LET e == Head(events)
             here == CASE e.op = "registerMiddleware" ->
                              logHandler(isVerbose, "Middleware", e.path, FALSE)
                       [] e.op = "registerRoute" ->
                              logHandler(isVerbose, e.method, e.path, FALSE)
                       [] e.op = "registerDefaultHandler" ->
                              logHandler(isVerbose,
                                         IF Len(e.methods) > 0 THEN "default" ELSE "ALL",
                                         e.path, TRUE)
                       [] OTHER -> <<>>
         IN here \o logHandlers(isVerbose, Tail(events))

\* a loop body that registers nothing when it logs
loopBodyDryRunWhenVerbose(route, i, isVerbose) ==
    LET events == registerEvents(route, i)
    IN [calls |-> IF isVerbose THEN <<events[1]>> ELSE events,
        console |-> logRoute(isVerbose, IF route.isMiddleware THEN "Middleware" ELSE "Route",
                             route.path, route.filePath)
                    \o logHandlers(isVerbose, events)]

\* one iteration of the for loop after the await, with the logger of
\* createLogger(isVerbose): the adapter calls and the console lines
loopBody(route, i, isVerbose) ==
    LET events == registerEvents(route, i)
    IN [calls |-> events,
        console |-> logRoute(isVerbose, IF route.isMiddleware THEN "Middleware" ELSE "Route",
                             route.path, route.filePath)
                    \o logHandlers(isVerbose, events)]

(***************************************************************************)
(* The bundled adapters                                                    *)
(***************************************************************************)
\* one call an adapter makes on its framework: app[fn](...)
FrameworkCall(fn, method, path, handler) ==
    [fn |-> fn, method |-> method, path |-> path, handler |-> handler]

\* Array.prototype.includes
includes(list, x) == \E k \in 1..Len(list) : list[k] = x

\* `methods` of the Hono, Koa and Fastify adapters
methods == <<"GET", "POST", "PUT", "DELETE", "PATCH", "OPTIONS", "HEAD">>

\* `allMethods` of the Express adapter
allMethods == <<"get", "post", "put", "delete", "patch", "options", "head">>

honoRegisterMiddleware(path, handler) == <<FrameworkCall("use", "", path, handler)>>

honoRegisterRoute(method, path, handler) ==
    LET methodLower == toLowerCase(method)
    IN IF methodLower = "head"
       THEN <<FrameworkCall("on", "HEAD", path, handler)>>
       ELSE <<FrameworkCall(methodLower, "", path, handler)>>

honoRegisterDefaultHandler(path, handler, registeredMethods) ==
    IF Len(registeredMethods) = 0
    THEN <<FrameworkCall("all", "", path, handler)>>
    ELSE LET unhandledMethods ==
                 SelectSeq(methods, LAMBDA method : ~includes(registeredMethods, method))
         IN [k \in 1..Len(unhandledMethods) |->
                FrameworkCall("on", unhandledMethods[k], path, handler)]

koaRegisterMiddleware(path, handler) == <<FrameworkCall("use", "", path, handler)>>

koaRegisterRoute(method, path, handler) ==
    <<FrameworkCall(toLowerCase(method), "", path, handler)>>

koaRegisterDefaultHandler(path, handler, registeredMethods) ==
    LET unhandledMethods ==
            SelectSeq(methods, LAMBDA method : ~includes(registeredMethods, method))
    IN [k \in 1..Len(unhandledMethods) |->
           FrameworkCall("register", unhandledMethods[k], path, handler)]

fastifyRegisterMiddleware(path, handler) ==
    LET middlewarePath == IF endsWith(path, <<Slash, "*">>)
                          THEN SubSeq(path, 1, Len(path) - 2) ELSE path
    IN <<FrameworkCall("addHook", "", middlewarePath, handler)>>

fastifyRegisterRoute(method, path, handler) ==
    <<FrameworkCall(toLowerCase(method), "", path, handler)>>

fastifyRegisterDefaultHandler(path, handler, registeredMethods) ==
    IF Len(registeredMethods) = 0
    THEN <<FrameworkCall("all", "", path, handler)>>
    ELSE LET unhandled ==
                 SelectSeq(methods, LAMBDA method : ~includes(registeredMethods, method))
             unhandledMethods ==
                 IF includes(registeredMethods, "GET") /\ ~includes(registeredMethods, "HEAD")
                 THEN SelectSeq(unhandled, LAMBDA m : m # "HEAD")
                 ELSE unhandled
         IN [k \in 1..Len(unhandledMethods) |->
                FrameworkCall("route", unhandledMethods[k], path, handler)]

expressRegisterMiddleware(path, handler) == <<FrameworkCall("use", "", path, handler)>>

expressRegisterRoute(method, path, handler) ==
    <<FrameworkCall(toLowerCase(method), "", path, handler)>>

\* an Express adapter that compares against the upper-case names
expressRegisterDefaultHandlerUpperCase(path, handler, registeredMethods) ==
    LET remainingMethods ==
            SelectSeq(methods, LAMBDA m : ~includes(registeredMethods, m))
    IN [k \in 1..Len(remainingMethods) |->
           FrameworkCall(toLowerCase(remainingMethods[k]), "", path, handler)]

expressRegisterDefaultHandler(path, handler, registeredMethods) ==
    LET remainingMethods ==
            SelectSeq(allMethods, LAMBDA m : ~includes(registeredMethods, m))
    IN [k \in 1..Len(remainingMethods) |->
           FrameworkCall(remainingMethods[k], "", path, handler)]

\* what the adapter does on its framework for one call of createRouter
adapterCall(a, e) ==
    CASE e.op = "registerMiddleware" ->
             (CASE a = "hono" -> honoRegisterMiddleware(e.path, e.handler)
                [] a = "koa" -> koaRegisterMiddleware(e.path, e.handler)
                [] a = "fastify" -> fastifyRegisterMiddleware(e.path, e.handler)
                [] a = "express" -> expressRegisterMiddleware(e.path, e.handler)
                [] OTHER -> <<>>)
      [] e.op = "registerRoute" ->
             (CASE a = "hono" -> honoRegisterRoute(e.method, e.path, e.handler)
                [] a = "koa" -> koaRegisterRoute(e.method, e.path, e.handler)
                [] a = "fastify" -> fastifyRegisterRoute(e.method, e.path, e.handler)
                [] a = "express" -> expressRegisterRoute(e.method, e.path, e.handler)
                [] OTHER -> <<>>)
      [] e.op = "registerDefaultHandler" ->
             (CASE a = "hono" -> honoRegisterDefaultHandler(e.path, e.handler, e.methods)
                [] a = "koa" -> koaRegisterDefaultHandler(e.path, e.handler, e.methods)
                [] a = "fastify" -> fastifyRegisterDefaultHandler(e.path, e.handler, e.methods)
                [] a = "express" -> expressRegisterDefaultHandler(e.path, e.handler, e.methods)
                [] OTHER -> <<>>)
      [] OTHER -> <<>>

RECURSIVE adapterCalls(_, _)
\* the framework calls of a sequence of createRouter calls, in order
adapterCalls(a, events) ==
    IF events = <<>> THEN <<>>
    ELSE adapterCall(a, Head(events)) \o adapterCalls(a, Tail(events))

(***************************************************************************)
(* Inputs                                                                  *)
(***************************************************************************)
TokA == <<"a">>
TokB == <<"b">>
TokC == <<"c">>
TokIndex == IndexName
TokRoute == <<"r","o","u","t","e">>
TokTs == <<"t","s">>
TokDynX == <<"[","x","]">>
TokDynXY == <<"[","x",".","y","]">>
TokCatchZ == <<"[",".",".",".","z","]">>

Entry(toks, seps, stem, isDir) == [toks |-> toks, seps |-> seps, stem |-> stem, isDir |-> isDir]

\* the files and the empty directory a routes directory is drawn from
Pool == <<
    Entry(<<TokA>>, <<Dot>>, RouteTs, FALSE),                  \* a.route.ts
    Entry(<<TokA>>, <<Slash>>, RouteTs, FALSE),                \* a/route.ts
    Entry(<<TokB>>, <<Dot>>, MiddlewareTs, FALSE),             \* b.middleware.ts
    Entry(<<TokA, TokDynX>>, <<Slash, Dot>>, RouteTs, FALSE),  \* a/[x].route.ts
    Entry(<<TokA, TokCatchZ>>, <<Dot, Dot>>, RouteJs, FALSE),  \* a.[...z].route.js
    Entry(<<TokCatchZ>>, <<Dot>>, RouteTs, FALSE),             \* [...z].route.ts
    Entry(<<TokIndex>>, <<Dot>>, RouteTs, FALSE),              \* index.route.ts
    Entry(<<TokA>>, <<Slash>>, MiddlewareTs, FALSE),           \* a/middleware.ts
    Entry(<<TokA, TokB>>, <<Slash, Dot>>, TokTs, FALSE),       \* a/b.ts
    Entry(<<TokA, TokB, TokC>>, <<Slash, Slash, Dot>>, MiddlewareJs, FALSE), \* a/b/c.middleware.js
    Entry(<<TokB>>, <<Dot>>, RouteTs, TRUE)                    \* b.route.ts/ (a directory)
>>

RECURSIVE listOf(_, _)
\* the members of the index set S in ascending or descending order
listOf(S, ascending) ==
    IF S = {} THEN <<>>
    ELSE LET i == IF ascending THEN CHOOSE k \in S : \A j \in S : k <= j
                   ELSE CHOOSE k \in S : \A j \in S : k >= j
         IN <<Pool[i]>> \o listOf(S \ {i}, ascending)

Directories ==
    { listOf(S, asc) : S \in { T \in SUBSET (1..Len(Pool)) : Cardinality(T) <= MaxEntries },
                       asc \in BOOLEAN }

\* what a module may export
ExportSets == { {}, {"GET"}, {"default", "helper"}, {"POST", "GET", "default"},
                {"HEAD", "OPTIONS", "PATCH", "DELETE", "PUT", "POST", "GET", "default"} }

(***************************************************************************)
(* A createRouter run                                                      *)
(***************************************************************************)
Init ==
    /\ fs \in Directories
    /\ collation \in Collations
    /\ adapter = "recording"
    /\ verbose = "absent"
    /\ pc = "start"
    /\ routes = <<>>
    /\ idx = 0
    /\ calls = <<>>
    /\ modules = <<>>
    /\ app = <<>>
    /\ console = <<>>
    /\ quietCalls = <<>>

\* createRouter up to its first await: the synchronous parse, then the first import
CreateRouter ==
    /\ pc = "start"
    /\ routes' = parseRoutes(fs, collation)
    /\ IF routes' = <<>>
       THEN pc' = "done" /\ idx' = 0 /\ calls' = calls
       ELSE pc' = "loading" /\ idx' = 1 /\ calls' = <<ImportEvent(1, routes'[1])>>
    /\ quietCalls' = calls'
    /\ UNCHANGED <<fs, collation, modules, adapter, app, verbose, console>>

\* a walk that hands each file to the loop as it is found, failing after the first
ReadDirFailsAfterFirstFile ==
    /\ pc = "start"
    /\ pc' = "rejected"
    /\ LET found == scanDirectory(fs, RoutesDir, <<>>)
       IN calls' = IF found = <<>> THEN calls ELSE <<ImportEvent(1, found[1])>>
    /\ UNCHANGED <<fs, collation, routes, idx, modules, adapter, app, verbose, console,
                   quietCalls>>

\* readdirSync or statSync throws during the walk
ReadDirFails ==
    /\ pc = "start"
    /\ pc' = "rejected"
    /\ UNCHANGED <<fs, collation, routes, idx, calls, modules, adapter, app, verbose,
                   console, quietCalls>>

\* a loop that starts the next import before the registrations of this descriptor
ImportResolvesNextFirst(moduleExports) ==
    /\ pc = "loading"
    /\ LET loaded == loadRouteHandlers(routes[idx], moduleExports)
           body == loopBody(loaded, idx, verboseOf(verbose))
           quiet == loopBody(loaded, idx, FALSE)
       IN /\ routes' = [routes EXCEPT ![idx] = loaded]
          /\ app' = app \o adapterCalls(adapter, body.calls)
          /\ console' = console \o body.console
          /\ IF idx = Len(routes)
             THEN /\ pc' = "done"
                  /\ idx' = idx
                  /\ calls' = calls \o body.calls
                  /\ quietCalls' = quietCalls \o quiet.calls
             ELSE /\ pc' = "loading"
                  /\ idx' = idx + 1
                  /\ calls' = Append(calls, ImportEvent(idx + 1, routes[idx + 1]))
                                  \o body.calls
                  /\ quietCalls' = Append(quietCalls, ImportEvent(idx + 1, routes[idx + 1]))
                                       \o quiet.calls
    /\ modules' = Append(modules, moduleExports)
    /\ UNCHANGED <<fs, collation, adapter, verbose>>

\* a loop whose registeredMethods list is declared once, before the loop: every
\* registerDefaultHandler call holds the one list all descriptors push to
ImportResolvesSharedList(moduleExports) ==
    /\ pc = "loading"
    /\ LET loaded == loadRouteHandlers(routes[idx], moduleExports)
           body == loopBody(loaded, idx, verboseOf(verbose))
           quiet == loopBody(loaded, idx, FALSE)
           own == calls \o body.calls
           pushed == SelectSeq(own, LAMBDA e : e.op = "registerRoute")
           shared == [k \in 1..Len(pushed) |-> toLowerCase(pushed[k].method)]
           made == [p \in 1..Len(own) |->
                       IF own[p].op = "registerDefaultHandler"
                       THEN [own[p] EXCEPT !.methods = shared]
                       ELSE own[p]]
           madeQuiet == quietCalls \o quiet.calls
       IN /\ routes' = [routes EXCEPT ![idx] = loaded]
          /\ app' = app \o adapterCalls(adapter, body.calls)
          /\ console' = console \o body.console
          /\ IF idx = Len(routes)
             THEN pc' = "done" /\ idx' = idx /\ calls' = made /\ quietCalls' = madeQuiet
             ELSE /\ pc' = "loading"
                  /\ idx' = idx + 1
                  /\ calls' = Append(made, ImportEvent(idx + 1, routes[idx + 1]))
                  /\ quietCalls' = Append(madeQuiet, ImportEvent(idx + 1, routes[idx + 1]))
    /\ modules' = Append(modules, moduleExports)
    /\ UNCHANGED <<fs, collation, adapter, verbose>>

\* the pending import resolves: handlers are attached, the registrations of this
\* descriptor are made and the next import starts
ImportResolves(moduleExports) ==
    /\ pc = "loading"
    /\ LET loaded == loadRouteHandlers(routes[idx], moduleExports)
           body == loopBody(loaded, idx, verboseOf(verbose))
           quiet == loopBody(loaded, idx, FALSE)
           made == calls \o body.calls
           madeQuiet == quietCalls \o quiet.calls
       IN /\ routes' = [routes EXCEPT ![idx] = loaded]
          /\ app' = app \o adapterCalls(adapter, body.calls)
          /\ console' = console \o body.console
          /\ IF idx = Len(routes)
             THEN pc' = "done" /\ idx' = idx /\ calls' = made /\ quietCalls' = madeQuiet
             ELSE /\ pc' = "loading"
                  /\ idx' = idx + 1
                  /\ calls' = Append(made, ImportEvent(idx + 1, routes[idx + 1]))
                  /\ quietCalls' = Append(madeQuiet, ImportEvent(idx + 1, routes[idx + 1]))
    /\ modules' = Append(modules, moduleExports)
    /\ UNCHANGED <<fs, collation, adapter, verbose>>

\* a rejection that undoes the calls made so far
ImportRejectsRollback ==
    /\ pc = "loading"
    /\ pc' = "rejected"
    /\ calls' = <<>>
    /\ UNCHANGED <<fs, collation, routes, idx, modules, adapter, app, verbose, console,
                   quietCalls>>

\* a rejection that is swallowed: createRouter neither rejects nor goes on
ImportRejectsSwallowed ==
    /\ pc = "loading"
    /\ pc' = "pending"
    /\ UNCHANGED <<fs, collation, routes, idx, calls, modules, adapter, app, verbose,
                   console, quietCalls>>

\* the pending import rejects: createRouter rejects
ImportRejects ==
    /\ pc = "loading"
    /\ pc' = "rejected"
    /\ UNCHANGED <<fs, collation, routes, idx, calls, modules, adapter, app, verbose,
                   console, quietCalls>>

Next ==
    \/ CreateRouter
    \/ ReadDirFails
    \/ \E moduleExports \in ExportSets : ImportResolves(moduleExports)
    \/ ImportRejects

Spec == Init /\ [][Next]_vars

(***************************************************************************)
(* parseRoutes on its own, on a directory that holds one generated file    *)
(***************************************************************************)
Vocabulary == {TokA, TokIndex, TokRoute, TokTs, TokDynX, TokDynXY, TokCatchZ}

Stems == {RouteTs, RouteJs, MiddlewareTs, MiddlewareJs, TokTs}

InitParse ==
    /\ \E n \in 0..MaxTokens :
          \E toks \in [1..n -> Vocabulary], seps \in [1..n -> {Slash, Dot}], stem \in Stems :
              fs = <<Entry(toks, seps, stem, FALSE)>>
    /\ collation = "icu"
    /\ adapter = "recording"
    /\ verbose = "absent"
    /\ pc = "start"
    /\ routes = <<>>
    /\ idx = 0
    /\ calls = <<>>
    /\ modules = <<>>
    /\ app = <<>>
    /\ console = <<>>
    /\ quietCalls = <<>>

\* a call of parseRoutes(routesDir)
ParseRoutes ==
    /\ pc = "start"
    /\ routes' = parseRoutes(fs, collation)
    /\ pc' = "parsed"
    /\ UNCHANGED <<fs, collation, idx, calls, modules, adapter, app, verbose, console,
                   quietCalls>>

NextParse == ParseRoutes

SpecParse == InitParse /\ [][NextParse]_vars

(***************************************************************************)
(* createRouter with each adapter, and with each value of options.verbose  *)
(***************************************************************************)
VerboseOptions == {"true", "false", "absent"}

InitOptions ==
    /\ fs \in { d \in Directories : Len(d) <= MaxDriven }
    /\ collation = "icu"
    /\ \/ adapter \in Adapters /\ verbose = "absent"
       \/ adapter = "recording" /\ verbose \in VerboseOptions
    /\ pc = "start"
    /\ routes = <<>>
    /\ idx = 0
    /\ calls = <<>>
    /\ modules = <<>>
    /\ app = <<>>
    /\ console = <<>>
    /\ quietCalls = <<>>

SpecOptions == InitOptions /\ [][Next]_vars

\* the synchronous part of createRouter runs, and every pending import settles
Fairness ==
    /\ WF_vars(ReadDirFails \/ CreateRouter)
    /\ WF_vars(ImportRejects \/ \E moduleExports \in ExportSets : ImportResolves(moduleExports))

SpecLive == InitOptions /\ [][Next]_vars /\ Fairness

(***************************************************************************)
(* The conventions read off an entry's tokens                              *)
(*                                                                         *)
(* These definitions state what the filename conventions say about an      *)
(* entry, from the tokens it was built from; the properties below compare  *)
(* them with what the parser computed from the characters.                 *)
(***************************************************************************)
IsCatchAllToken(t) == t = TokCatchZ
IsDynamicToken(t) == t \in {TokDynX, TokDynXY}

ParamNameOf(t) ==
    CASE t = TokDynX -> <<"x">>
      [] t = TokDynXY -> <<"x", ".", "y">>
      [] t = TokCatchZ -> <<"z">>
      [] OTHER -> <<>>

ComponentOf(t) == IF IsDynamicToken(t) THEN <<":">> \o ParamNameOf(t) ELSE t

NumToks(e) == Len(e.toks)

\* the stem is joined to the last token by a dot: name.route.ts, name.middleware.ts
HasSuffix(e, stems) == e.stem \in stems /\ NumToks(e) >= 1 /\ e.seps[NumToks(e)] = Dot

\* the stem is the whole file name: route.ts, dir/route.ts
IsBare(e, stems) == e.stem \in stems /\ (NumToks(e) = 0 \/ e.seps[NumToks(e)] = Slash)

RouteStems == {RouteTs, RouteJs}
MiddlewareStems == {MiddlewareTs, MiddlewareJs}

IsMiddlewareEntry(e) == ~e.isDir /\ HasSuffix(e, MiddlewareStems)
IsRouteEntry(e) == ~e.isDir /\ (HasSuffix(e, RouteStems) \/ IsBare(e, RouteStems))
IsQualifyingEntry(e) == IsMiddlewareEntry(e) \/ IsRouteEntry(e)

\* what is left of the name once the suffix is removed ends in `route.ts`
EndsInRouteName(e) ==
    /\ NumToks(e) >= 2
    /\ e.toks[NumToks(e) - 1] = TokRoute
    /\ e.toks[NumToks(e)] = TokTs
    /\ e.seps[NumToks(e) - 1] = Dot

RECURSIVE GroupsFrom(_, _, _)
\* the tokens grouped into directory-level parts
GroupsFrom(e, i, cur) ==
    IF i > NumToks(e) THEN (IF cur = <<>> THEN <<>> ELSE <<cur>>)
    ELSE IF i < NumToks(e) /\ e.seps[i] = Slash
         THEN <<Append(cur, e.toks[i])>> \o GroupsFrom(e, i + 1, <<>>)
         ELSE GroupsFrom(e, i + 1, Append(cur, e.toks[i]))

RECURSIVE Concat(_)
Concat(ss) == IF ss = <<>> THEN <<>> ELSE Head(ss) \o Concat(Tail(ss))

\* the tokens that count: a directory-level part that is exactly `index` does not
KeptTokens(e) == Concat(SelectSeq(GroupsFrom(e, 1, <<>>), LAMBDA g : g # <<TokIndex>>))

HasCatchAllToken(ts) == \E i \in 1..Len(ts) : IsCatchAllToken(ts[i])

FirstCatchAll(ts) == CHOOSE i \in 1..Len(ts) : IsCatchAllToken(ts[i]) /\ \A j \in 1..(i - 1) : ~IsCatchAllToken(ts[j])

\* the tokens before the first catch-all token
BeforeCatchAll(ts) == IF HasCatchAllToken(ts) THEN SubSeq(ts, 1, FirstCatchAll(ts) - 1) ELSE ts

\* '/' followed by the components of the tokens ts joined with '/'
PathOfTokens(ts) == <<Slash>> \o join([i \in 1..Len(ts) |-> ComponentOf(ts[i])], Slash)

ExpectedPath(e) ==
    LET ts == KeptTokens(e)
    IN IF HasCatchAllToken(ts) THEN PathOfTokens(BeforeCatchAll(ts)) \o <<Slash, "*">>
       ELSE PathOfTokens(ts)

ExpectedParams(e) ==
    LET ts == KeptTokens(e)
        consumed == IF HasCatchAllToken(ts) THEN SubSeq(ts, 1, FirstCatchAll(ts)) ELSE ts
        named == SelectSeq(consumed, LAMBDA t : IsDynamicToken(t) \/ IsCatchAllToken(t))
    IN [i \in 1..Len(named) |-> ParamNameOf(named[i])]

HasDoubleSlash(path) == \E i \in 1..(Len(path) - 1) : path[i] = Slash /\ path[i + 1] = Slash

\* parseRoutes has returned for the one-file directory
ParsedOne == pc = "parsed" /\ Len(fs) = 1

Input == fs[1]

DoubleSlashStar == <<Slash, Slash, "*">>
SlashStar == <<Slash, "*">>

C5_NeverDoubleSlash ==
    ParsedOne =>
        \A i \in 1..Len(routes) :
            /\ Len(routes[i].path) >= 1
            /\ routes[i].path[1] = Slash
            /\ ~HasDoubleSlash(routes[i].path)

\* C5 amended: every routePath begins with '/', and contains '//' only when a
\* catch-all token was reached before any component, where it is exactly '//*'.
C5_LeadingSlash ==
    ParsedOne =>
        \A i \in 1..Len(routes) :
            /\ Len(routes[i].path) >= 1
            /\ routes[i].path[1] = Slash
            /\ HasDoubleSlash(routes[i].path)
                  => /\ routes[i].path = DoubleSlashStar
                     /\ Len(routes[i].paramNames) = 1

\* index/[...z].route.ts has been compiled
C5_Witness ==
    /\ ParsedOne
    /\ Input = Entry(<<TokIndex, TokCatchZ>>, <<Slash, Dot>>, RouteTs, FALSE)
    /\ Len(routes) = 1
    /\ HasDoubleSlash(routes[1].path)

(***************************************************************************)
(* C6: a catch-all with nothing before it                                  *)
(***************************************************************************)
\* C6: a catch-all file with no static or dynamic component before the
\* catch-all token compiles to exactly '//*', parameterNames holding the single
\* catch-all name.
C6_RootCatchAll ==
    (ParsedOne /\ IsQualifyingEntry(Input) /\ KeptTokens(Input) # <<>>
        /\ IsCatchAllToken(KeptTokens(Input)[1]))
        => /\ Len(routes) = 1
           /\ routes[1].path = DoubleSlashStar
           /\ routes[1].paramNames = << ParamNameOf(KeptTokens(Input)[1]) >>

\* [...z].route.ts at the root has been compiled
C6_Witness ==
    /\ ParsedOne
    /\ Input = Entry(<<TokCatchZ>>, <<Dot>>, RouteTs, FALSE)
    /\ Len(routes) = 1
    /\ routes[1].paramNames = << <<"z">> >>

(***************************************************************************)
(* C7: parameterNames                                                      *)
(***************************************************************************)
\* C7: parameterNames lists the names of the dynamic and catch-all tokens
\* consumed, left to right, and each dynamic name p is the component :p of
\* routePath at the position of its token.
C7_ParameterNames ==
    (ParsedOne /\ IsQualifyingEntry(Input))
        => /\ Len(routes) = 1
           /\ routes[1].paramNames = ExpectedParams(Input)
           /\ LET ts == BeforeCatchAll(KeptTokens(Input))
                  components == split(routes[1].path, Slash)
              IN \A k \in 1..Len(ts) :
                    IsDynamicToken(ts[k])
                        => /\ Len(components) >= k + 1
                           /\ components[k + 1] = <<":">> \o ParamNameOf(ts[k])

\* [x]/[x.y].[...z].route.ts has been compiled: three names in order
C7_Witness ==
    /\ ParsedOne
    /\ Input = Entry(<<TokDynX, TokDynXY, TokCatchZ>>, <<Slash, Dot, Dot>>, RouteTs, FALSE)
    /\ Len(routes) = 1
    /\ routes[1].paramNames = << <<"x">>, <<"x", ".", "y">>, <<"z">> >>

(***************************************************************************)
(* C10: directory notation and dot notation                                *)
(***************************************************************************)
\* the same tokens written in dot notation only: t1.t2...tn.route.ts
DotNotation(e) == Entry(e.toks, [i \in 1..NumToks(e) |-> Dot], RouteTs, FALSE)

SameCompilation(r, others) ==
    /\ Len(others) = 1
    /\ r.path = others[1].path
    /\ r.paramNames = others[1].paramNames

\* C10 as stated: for any tokens t1..tn, every mix of '/' and '.' separators
\* (and route.ts in the last directory) compiles to the same routePath and
\* parameterNames as t1.t2...tn.route.ts.
C10_AnyTokens ==
    (ParsedOne /\ IsRouteEntry(Input) /\ NumToks(Input) >= 1)
        => /\ Len(routes) = 1
           /\ SameCompilation(routes[1], parseRoutes(<<DotNotation(Input)>>, collation))

NoIndexToken(e) == \A i \in 1..NumToks(e) : e.toks[i] # TokIndex

EndsWithRouteTsTokens(e) ==
    /\ NumToks(e) >= 2
    /\ e.toks[NumToks(e) - 1] = TokRoute
    /\ e.toks[NumToks(e)] = TokTs

\* C10 amended: the same, for tokens none of which is `index` and which do not
\* end in the two tokens `route`, `ts`.
C10_Interchangeable ==
    (ParsedOne /\ IsRouteEntry(Input) /\ NumToks(Input) >= 1
        /\ NoIndexToken(Input) /\ ~EndsWithRouteTsTokens(Input))
        => /\ Len(routes) = 1
           /\ SameCompilation(routes[1], parseRoutes(<<DotNotation(Input)>>, collation))

\* a/[x]/[...z]/route.ts has been compiled to /a/:x/*
C10_Witness ==
    /\ ParsedOne
    /\ Input = Entry(<<TokA, TokDynX, TokCatchZ>>, <<Slash, Slash, Slash>>, RouteTs, FALSE)
    /\ Len(routes) = 1
    /\ routes[1].path = <<Slash, "a", Slash, ":", "x", Slash, "*">>

(***************************************************************************)
(* Properties of a createRouter run                                        *)
(***************************************************************************)
\* parseRoutes has returned in this run
Parsed == pc \in {"loading", "done"} \/ (pc = "rejected" /\ idx >= 1)

CallsOf(op) == { i \in 1..Len(calls) : calls[i].op = op }

\* C1: every registerMiddleware call is made before every registerRoute call
\* and before every registerDefaultHandler call.
C1_MiddlewareFirst ==
    \A i \in CallsOf("registerMiddleware") :
        \A j \in CallsOf("registerRoute") \cup CallsOf("registerDefaultHandler") : i < j

\* a finished run that made calls of all three kinds
C1_Witness ==
    /\ pc = "done"
    /\ CallsOf("registerMiddleware") # {}
    /\ CallsOf("registerRoute") # {}
    /\ CallsOf("registerDefaultHandler") # {}

\* the number of '/'-delimited components of a path
NumComponents(path) == Cardinality({ i \in 1..Len(path) : path[i] = Slash }) + 1

\* s >= t in the string order of the host
StringGeq(s, t) ==
    \/ s = t
    \/ \E k \in 1..Len(s) :
          /\ \A j \in 1..(k - 1) : j <= Len(t) /\ s[j] = t[j]
          /\ \/ k > Len(t)
             \/ k <= Len(t) /\ rankOf(s[k], collation) > rankOf(t[k], collation)

\* C2: the returned sequence is sorted: middleware first, then deeper paths
\* first, then routePath descending.
C2_Sorted ==
    Parsed =>
        \A i, j \in 1..Len(routes) :
            i < j =>
                LET a == routes[i]
                    b == routes[j]
                IN /\ a.isMiddleware \/ ~b.isMiddleware
                   /\ (a.isMiddleware = b.isMiddleware)
                         => NumComponents(a.path) >= NumComponents(b.path)
                   /\ (a.isMiddleware = b.isMiddleware
                         /\ NumComponents(a.path) = NumComponents(b.path))
                         => StringGeq(a.path, b.path)

\* a middleware and two routes of equal depth and different paths were sorted
C2_Witness ==
    /\ Parsed
    /\ Len(routes) = 3
    /\ routes[1].isMiddleware
    /\ ~routes[2].isMiddleware /\ ~routes[3].isMiddleware
    /\ NumComponents(routes[2].path) = NumComponents(routes[3].path)
    /\ routes[2].path # routes[3].path

DescriptorsOf(e) == { k \in 1..Len(routes) : routes[k].filePath = absOf(e) }

\* C8: exactly one descriptor for each file whose name ends in .route.ts,
\* .route.js, .middleware.ts or .middleware.js or is route.ts or route.js, at
\* any depth, none for any other entry; isMiddleware exactly for the
\* .middleware names.
C8_OneDescriptorPerFile ==
    Parsed =>
        /\ \A i \in 1..Len(fs) :
              IsQualifyingEntry(fs[i]) => Cardinality(DescriptorsOf(fs[i])) = 1
        /\ \A k \in 1..Len(routes) :
              \E i \in 1..Len(fs) :
                  /\ IsQualifyingEntry(fs[i])
                  /\ k \in DescriptorsOf(fs[i])
                  /\ routes[k].isMiddleware <=> IsMiddlewareEntry(fs[i])

\* a directory with a/b/c.middleware.js, a/b.ts and the directory b.route.ts
\* was walked: one descriptor
C8_Witness ==
    /\ Parsed
    /\ Len(fs) = 3
    /\ \E i \in 1..3 : fs[i] = Pool[9]
    /\ \E i \in 1..3 : fs[i] = Pool[10]
    /\ \E i \in 1..3 : fs[i] = Pool[11]
    /\ Len(routes) = 1
    /\ routes[1].isMiddleware

IsBareMiddleware(e) == ~e.isDir /\ IsBare(e, MiddlewareStems)
IsBareRoute(e) == ~e.isDir /\ IsBare(e, RouteStems)

\* C9 as stated: a file named exactly middleware.ts or middleware.js yields a
\* middleware descriptor whose routePath is the path of its directory.
C9_BareMiddlewareQualifies ==
    Parsed =>
        \A i \in 1..Len(fs) :
            IsBareMiddleware(fs[i])
                => \E k \in DescriptorsOf(fs[i]) :
                       /\ routes[k].isMiddleware
                       /\ routes[k].path = PathOfTokens(KeptTokens(fs[i]))

\* C9 amended: a file named exactly middleware.ts or middleware.js does not
\* qualify and yields no descriptor; a bare route.ts yields a route descriptor
\* whose routePath is the path of its directory.
C9_BareStems ==
    Parsed =>
        \A i \in 1..Len(fs) :
            /\ IsBareMiddleware(fs[i]) => DescriptorsOf(fs[i]) = {}
            /\ IsBareRoute(fs[i])
                  => \E k \in DescriptorsOf(fs[i]) :
                         /\ ~routes[k].isMiddleware
                         /\ routes[k].path = PathOfTokens(KeptTokens(fs[i]))

\* a directory holding a/middleware.ts and a/route.ts was parsed
C9_Witness ==
    /\ Parsed
    /\ \E i \in 1..Len(fs) : fs[i] = Pool[8]
    /\ \E i \in 1..Len(fs) : fs[i] = Pool[2]
    /\ Len(routes) = 1
    /\ ~routes[1].isMiddleware

(***************************************************************************)
(* createRouter: the calls made for each descriptor                        *)
(***************************************************************************)
\* the descriptors whose import has resolved
Processed == 1..Len(modules)

\* the imports and adapter calls made for descriptor i, in order
EventsOf(i) == SelectSeq(calls, LAMBDA e : e.route = i)

OpsOf(i, op) == SelectSeq(calls, LAMBDA e : e.route = i /\ e.op = op)

RegistrationOps == {"registerMiddleware", "registerRoute", "registerDefaultHandler"}

RegistrationsOf(i) == SelectSeq(calls, LAMBDA e : e.route = i /\ e.op \in RegistrationOps)

SevenMethods == <<"GET", "POST", "PUT", "DELETE", "PATCH", "OPTIONS", "HEAD">>

EightNames == {"GET", "POST", "PUT", "DELETE", "PATCH", "OPTIONS", "HEAD", "default"}

\* the methods the module of descriptor i exports, in the fixed order
ExportedMethods(i) == SelectSeq(SevenMethods, LAMBDA m : m \in modules[i])

LowerCaseOf(m) ==
    CASE m = "GET" -> "get"
      [] m = "POST" -> "post"
      [] m = "PUT" -> "put"
      [] m = "DELETE" -> "delete"
      [] m = "PATCH" -> "patch"
      [] m = "OPTIONS" -> "options"
      [] m = "HEAD" -> "head"

\* the function the module of descriptor i exports under a name
ExportOf(i, name) == [file |-> routes[i].filePath, export |-> name]

\* C12: for a route descriptor, registerRoute is called exactly once for each
\* of the seven method names the module exports and for no other, with the
\* upper-case name, in the order GET, POST, PUT, DELETE, PATCH, OPTIONS, HEAD.
C12_RegisterRoutePerMethod ==
    \A i \in Processed :
        ~routes[i].isMiddleware
            => LET r == OpsOf(i, "registerRoute")
               IN [k \in 1..Len(r) |-> r[k].method] = ExportedMethods(i)

\* a route whose module exports all seven methods and a default got its
\* seven registerRoute calls
C12_Witness ==
    \E i \in Processed :
        /\ ~routes[i].isMiddleware
        /\ modules[i] = {"HEAD", "OPTIONS", "PATCH", "DELETE", "PUT", "POST", "GET", "default"}
        /\ Len(OpsOf(i, "registerRoute")) = 7

\* C13: for a route descriptor, registerDefaultHandler is called exactly once
\* if the module has a default export and never otherwise, after every
\* registerRoute call of the descriptor, with the lower-cased names of the
\* methods registered for the descriptor, in registration order.
C13_DefaultHandlerOnce ==
    \A i \in Processed :
        ~routes[i].isMiddleware
            => LET d == OpsOf(i, "registerDefaultHandler")
                   r == OpsOf(i, "registerRoute")
               IN /\ Len(d) = IF "default" \in modules[i] THEN 1 ELSE 0
                  /\ \A k \in 1..Len(d) :
                        /\ d[k].methods = [j \in 1..Len(r) |-> LowerCaseOf(r[j].method)]
                        /\ d[k].handler = ExportOf(i, "default")
                  /\ \A p, q \in 1..Len(calls) :
                        /\ calls[p].route = i /\ calls[p].op = "registerRoute"
                        /\ calls[q].route = i /\ calls[q].op = "registerDefaultHandler"
                        => p < q

\* a route whose module exports POST, GET and default got its default handler
\* with the list get, post
C13_Witness ==
    \E i \in Processed :
        /\ ~routes[i].isMiddleware
        /\ modules[i] = {"POST", "GET", "default"}
        /\ Len(OpsOf(i, "registerDefaultHandler")) = 1
        /\ OpsOf(i, "registerDefaultHandler")[1].methods = <<"get", "post">>

\* C14: for a middleware descriptor, registerMiddleware is called at most
\* once, with the default export if there is one, otherwise with the GET
\* export, and not at all if there is neither; registerRoute and
\* registerDefaultHandler are never called for it.
C14_MiddlewareOnce ==
    \A i \in Processed :
        routes[i].isMiddleware
            => LET m == OpsOf(i, "registerMiddleware")
               IN /\ OpsOf(i, "registerRoute") = <<>>
                  /\ OpsOf(i, "registerDefaultHandler") = <<>>
                  /\ IF "default" \in modules[i]
                     THEN Len(m) = 1 /\ m[1].handler = ExportOf(i, "default")
                     ELSE IF "GET" \in modules[i]
                          THEN Len(m) = 1 /\ m[1].handler = ExportOf(i, "GET")
                          ELSE m = <<>>

\* a middleware whose module exports POST, GET and default was registered
\* with its default export
C14_Witness ==
    \E i \in Processed :
        /\ routes[i].isMiddleware
        /\ modules[i] = {"POST", "GET", "default"}
        /\ Len(OpsOf(i, "registerMiddleware")) = 1
        /\ OpsOf(i, "registerMiddleware")[1].handler.export = "default"

\* C15: transformPath is called exactly once per descriptor, on its compiled
\* path and before any registration call of the descriptor, and every
\* registration call gets the value it returned.
C15_TransformedPath ==
    /\ \A i \in Processed :
          LET t == OpsOf(i, "transformPath")
          IN /\ Len(t) = 1
             /\ t[1].path = routes[i].path
             /\ \A p \in 1..Len(calls) :
                   calls[p].route = i /\ calls[p].op \in RegistrationOps
                       => /\ calls[p].path = transformPath(routes[i].path)
                          /\ \E q \in 1..(p - 1) :
                                calls[q].route = i /\ calls[q].op = "transformPath"
    /\ \A p \in 1..Len(calls) :
          calls[p].op \in RegistrationOps \cup {"transformPath"}
              => calls[p].route \in Processed

\* a default handler was registered on a transformed path that differs from
\* the compiled path
C15_Witness ==
    \E p \in 1..Len(calls) :
        /\ calls[p].op = "registerDefaultHandler"
        /\ calls[p].path = transformPath(routes[calls[p].route].path)
        /\ calls[p].path # routes[calls[p].route].path

\* C16: descriptors are processed one at a time in the order of parseRoutes:
\* each module is imported exactly once, and the calls, grouped by
\* descriptor, follow the descriptor order without overlap, each group
\* starting with its import.
C16_OneAtATime ==
    /\ \A p, q \in 1..Len(calls) : p < q => calls[p].route <= calls[q].route
    /\ \A i \in 1..Len(routes) :
          LET imports == OpsOf(i, "import")
          IN /\ Len(imports) = IF Parsed /\ i <= idx THEN 1 ELSE 0
             /\ Len(imports) = 1
                   => /\ imports[1].path = routes[i].filePath
                      /\ EventsOf(i)[1].op = "import"
             /\ Len(imports) = 0 => EventsOf(i) = <<>>
    /\ pc = "done" => idx = Len(routes) /\ Len(modules) = Len(routes)

\* a run over three descriptors finished with registrations for the first
\* and the second
C16_Witness ==
    /\ pc = "done"
    /\ Len(routes) = 3
    /\ RegistrationsOf(1) # <<>>
    /\ RegistrationsOf(2) # <<>>

\* C17: when the import of descriptor k rejects, createRouter rejects, the
\* calls made for the descriptors before k stay as they are, no transformPath
\* or registration call is made for k or a later descriptor, and nothing is
\* called afterwards.
C17_ImportRejection ==
    [][/\ (pc = "loading" /\ pc' = "rejected")
           => /\ calls' = calls
              /\ idx' = idx
              /\ \A p \in 1..Len(calls') :
                    calls'[p].route < idx \/ calls'[p].op = "import"
              /\ \A j \in 1..(idx - 1) : Len(OpsOf(j, "transformPath")) = 1
       /\ pc = "rejected" => calls' = calls /\ pc' = "rejected"]_vars

\* the import of the second descriptor rejected after a route of the first
\* was registered
C17_Witness ==
    /\ pc = "rejected"
    /\ idx = 2
    /\ OpsOf(1, "registerRoute") # <<>>
    /\ EventsOf(2) = <<ImportEvent(2, routes[2])>>

\* C18: when the walk of the routes directory fails, createRouter rejects
\* without importing a module and without any adapter call.
C18_WalkFailure ==
    (pc = "rejected" /\ idx = 0) => calls = <<>> /\ modules = <<>>

\* the walk failed in a directory that holds a.route.ts
C18_Witness ==
    /\ pc = "rejected"
    /\ idx = 0
    /\ \E i \in 1..Len(fs) : fs[i] = Pool[1]

\* C19: a descriptor whose module exports none of the seven methods and no
\* default causes no registration call and no rejection; the descriptor
\* after it is processed.
C19_NoHandlers ==
    \A i \in Processed :
        modules[i] \cap EightNames = {}
            => /\ RegistrationsOf(i) = <<>>
               /\ i < Len(routes) => Len(OpsOf(i + 1, "import")) = 1
               /\ i = Len(routes) => pc = "done"

\* a module without exports was followed by a descriptor that was registered
C19_Witness ==
    \E i \in Processed :
        /\ modules[i] = {}
        /\ i < Len(routes)
        /\ RegistrationsOf(i + 1) # <<>>

\* the number of registration calls the module of descriptor i calls for
ExpectedRegistrations(i) ==
    IF routes[i].isMiddleware
    THEN IF "default" \in modules[i] \/ "GET" \in modules[i] THEN 1 ELSE 0
    ELSE Len(ExportedMethods(i)) + IF "default" \in modules[i] THEN 1 ELSE 0

\* C20: two distinct files that compile to the same routePath each get their
\* own descriptor, and a finished createRouter has made the registration
\* calls of both.
C20_SamePathBothKept ==
    \A a, b \in 1..Len(fs) :
        /\ a # b
        /\ IsQualifyingEntry(fs[a]) /\ IsQualifyingEntry(fs[b])
        /\ ExpectedPath(fs[a]) = ExpectedPath(fs[b])
        => /\ Parsed
              => /\ Cardinality(DescriptorsOf(fs[a])) = 1
                 /\ Cardinality(DescriptorsOf(fs[b])) = 1
                 /\ DescriptorsOf(fs[a]) # DescriptorsOf(fs[b])
                 /\ \A k \in DescriptorsOf(fs[a]) \cup DescriptorsOf(fs[b]) :
                       routes[k].path = ExpectedPath(fs[a])
           /\ pc = "done"
              => \A k \in DescriptorsOf(fs[a]) \cup DescriptorsOf(fs[b]) :
                    Len(RegistrationsOf(k)) = ExpectedRegistrations(k)

\* a.route.ts and a/route.ts were both registered on the same path
C20_Witness ==
    /\ pc = "done"
    /\ \E i \in 1..Len(fs) : fs[i] = Pool[1]
    /\ \E i \in 1..Len(fs) : fs[i] = Pool[2]
    /\ \E p, q \in CallsOf("registerRoute") :
          /\ calls[p].route # calls[q].route
          /\ calls[p].path = calls[q].path

(***************************************************************************)
(* C21: a directory without qualifying file                                *)
(***************************************************************************)
\* C21: for a routes directory with no qualifying file (empty, or holding
\* only other files and empty directories) parseRoutes returns the empty
\* sequence and createRouter resolves without any adapter call.
C21_NothingToRegister ==
    (pc # "start" /\ ~(pc = "rejected" /\ idx = 0)
        /\ \A k \in 1..Len(fs) : ~IsQualifyingEntry(fs[k]))
        => /\ routes = <<>>
           /\ pc = "done"
           /\ calls = <<>>
           /\ app = <<>>

\* createRouter resolved on a directory that holds a/b.ts and the empty
\* directory b.route.ts
C21_Witness ==
    /\ pc = "done"
    /\ \E k \in 1..Len(fs) : fs[k] = Pool[9]
    /\ \E k \in 1..Len(fs) : fs[k] = Pool[11]
    /\ \A k \in 1..Len(fs) : ~IsQualifyingEntry(fs[k])
    /\ calls = <<>>

(***************************************************************************)
(* C22: options.verbose                                                    *)
(***************************************************************************)
\* C22: the verbose option is observational: the run makes the imports and
\* adapter calls, with the arguments, of the same run with verbose false, and
\* with verbose false or absent nothing is written to the console.
C22_VerboseObservational ==
    /\ calls = quietCalls
    /\ verbose \in {"false", "absent"} => console = <<>>

\* a verbose run registered a route and logged it
C22_Witness ==
    /\ verbose = "true"
    /\ pc = "done"
    /\ CallsOf("registerRoute") # {}
    /\ \E k \in 1..Len(console) : console[k].line = "handler"
    /\ calls = quietCalls

(***************************************************************************)
(* C23, C24: the default handler on the framework                          *)
(***************************************************************************)
UpperCaseOf(m) ==
    CASE m = "get" -> "GET"
      [] m = "post" -> "POST"
      [] m = "put" -> "PUT"
      [] m = "delete" -> "DELETE"
      [] m = "patch" -> "PATCH"
      [] m = "options" -> "OPTIONS"
      [] m = "head" -> "HEAD"

SevenLowerCase == {"get", "post", "put", "delete", "patch", "options", "head"}

SevenUpperCase == {"GET", "POST", "PUT", "DELETE", "PATCH", "OPTIONS", "HEAD"}

\* the HTTP methods a framework call binds its handler to
BoundMethods(c) ==
    CASE c.fn \in SevenLowerCase -> {UpperCaseOf(c.fn)}
      [] c.fn \in {"on", "register", "route"} -> {c.method}
      [] c.fn = "all" -> SevenUpperCase
      [] OTHER -> {}

\* the framework calls that bind the default export of descriptor i
DefaultBindings(i) == SelectSeq(app, LAMBDA c : c.handler = ExportOf(i, "default"))

\* the route descriptors whose module exports a default and at least one method
MethodsAndDefault ==
    { i \in Processed : /\ ~routes[i].isMiddleware
                        /\ "default" \in modules[i]
                        /\ modules[i] \cap SevenUpperCase # {} }

\* C23 as stated: with the Hono, Koa or Fastify adapter, the default handler
\* of a route file that exports a non-empty set S of methods is registered
\* only for methods outside S.
C23_DefaultOutsideExported ==
    adapter \in {"hono", "koa", "fastify"}
        => \A i \in MethodsAndDefault :
               \A k \in 1..Len(DefaultBindings(i)) :
                   BoundMethods(DefaultBindings(i)[k]) \cap modules[i] = {}

\* C24: ExpressAdapter.registerDefaultHandler registers the handler exactly
\* once on each of get, post, put, delete, patch, options, head that is not
\* in registeredMethods and on none that is in it, so that under createRouter
\* the default export is bound to exactly the methods the file does not export.
C24_ExpressDefault ==
    adapter = "express"
        => \A i \in Processed :
               (~routes[i].isMiddleware /\ "default" \in modules[i])
                   => LET b == DefaultBindings(i)
                          d == OpsOf(i, "registerDefaultHandler")
                      IN /\ Len(d) = 1
                         /\ \A m \in SevenLowerCase :
                               Cardinality({ k \in 1..Len(b) : b[k].fn = m })
                                   = IF \E j \in 1..Len(d[1].methods) : d[1].methods[j] = m
                                     THEN 0 ELSE 1
                         /\ \A m \in SevenUpperCase :
                               Cardinality({ k \in 1..Len(b) : m \in BoundMethods(b[k]) })
                                   = IF m \in modules[i] THEN 0 ELSE 1
                         /\ \A k \in 1..Len(b) :
                               b[k].fn \in SevenLowerCase /\ b[k].path = d[1].path

\* with the Express adapter, the default export of a file that also exports
\* GET and POST was bound to the five other methods
C24_Witness ==
    /\ adapter = "express"
    /\ \E i \in Processed :
          /\ ~routes[i].isMiddleware
          /\ modules[i] = {"POST", "GET", "default"}
          /\ Len(DefaultBindings(i)) = 5

(***************************************************************************)
(* C25: the path of a middleware file                                      *)
(***************************************************************************)
\* the middleware files of the directory without catch-all token
PlainMiddleware ==
    { a \in 1..Len(fs) : IsMiddlewareEntry(fs[a]) /\ ~HasCatchAllToken(fs[a].toks) }

C26_AbsentWhenNotExported ==
    \A i \in Processed : DOMAIN routes[i].handlers = modules[i] \cap EightNames

\* C26 amended: after loadRouteHandlers the handlers map has exactly the
\* eight keys; the value under a name is the module's export of that name
\* when the module exports it and undefined when it does not, and no other
\* export is copied.
C26_EightKeys ==
    \A i \in Processed :
        /\ DOMAIN routes[i].handlers = EightNames
        /\ \A name \in EightNames :
              routes[i].handlers[name]
                  = IF name \in modules[i] THEN ExportOf(i, name)
                    ELSE [file |-> <<>>, export |-> "undefined"]

\* a module that exports default and helper was loaded: GET is present with
\* the value undefined and helper is not copied
C26_Witness ==
    \E i \in Processed :
        /\ modules[i] = {"default", "helper"}
        /\ "GET" \in DOMAIN routes[i].handlers
        /\ routes[i].handlers["GET"].export = "undefined"
        /\ routes[i].handlers["default"] = ExportOf(i, "default")
        /\ "helper" \notin DOMAIN routes[i].handlers

(***************************************************************************)
(* C27: index                                                              *)
(***************************************************************************)
\* token i is a whole directory-level part: a directory name, or the file
\* name without its suffix
AloneInPart(e, i) ==
    /\ i = 1 \/ e.seps[i - 1] = Slash
    /\ i = NumToks(e) \/ e.seps[i] = Slash

\* the tokens that are compiled: those before the first catch-all token
CompiledTokens(e) ==
    IF HasCatchAllToken(e.toks) THEN 1..(FirstCatchAll(e.toks) - 1) ELSE 1..NumToks(e)

\* the positions of the components of path that are the text index
IndexComponents(path) ==
    { k \in 1..Len(split(path, Slash)) : split(path, Slash)[k] = <<"i", "n", "d", "e", "x">> }

IsCatchAllPath(path) == endsWith(path, <<Slash, "*">>)

\* the prefix P of a catch-all path P/*; the root prefix is /
PrefixOf(path) ==
    IF Len(path) = 3 THEN <<Slash>> ELSE SubSeq(path, 1, Len(path) - 2)

\* path is prefix followed by one more component
ExtendsByOne(prefix, path) ==
    LET stem == IF prefix = <<Slash>> THEN prefix ELSE prefix \o <<Slash>>
    IN /\ startsWith(path, stem)
       /\ Len(path) > Len(stem)
       /\ \A j \in (Len(stem) + 1)..Len(path) : path[j] # Slash

\* C28 as stated: in the sequence of parseRoutes a catch-all route P/* is
\* never placed before a route that is not a catch-all and whose path extends
\* P with one static or dynamic component.
C28_CatchAllLast ==
    Parsed =>
        \A k, l \in 1..Len(routes) :
            (/\ ~routes[k].isMiddleware /\ ~routes[l].isMiddleware
             /\ IsCatchAllPath(routes[k].path)
             /\ ~IsCatchAllPath(routes[l].path)
             /\ ExtendsByOne(PrefixOf(routes[k].path), routes[l].path))
                => l < k

(***************************************************************************)
(* C29: the registeredMethods list of a descriptor                         *)
(***************************************************************************)
\* the lower-case names of the methods the module of descriptor i exports
OwnMethods(i) == {LowerCaseOf(m) : m \in modules[i] \cap {SevenMethods[k] : k \in 1..Len(SevenMethods)}}

\* C29: the registeredMethods list passed to registerDefaultHandler for a
\* descriptor holds only methods registered from that descriptor's own file,
\* also when an earlier file compiles to the same path; a list, once passed,
\* is not changed by the processing of another descriptor.
C29_OwnFreshList ==
    /\ [](\A p \in 1..Len(calls) :
             calls[p].op = "registerDefaultHandler"
                 => /\ calls[p].route \in Processed
                    /\ \A k \in 1..Len(calls[p].methods) :
                          calls[p].methods[k] \in OwnMethods(calls[p].route))
    /\ [][\A p \in 1..Len(calls) :
             calls[p].op = "registerDefaultHandler"
                 => /\ p <= Len(calls')
                    /\ calls'[p] = calls[p]]_vars

\* two files compile to the same path; the first registered GET and POST and a
\* default handler, the second only a default handler, with an empty list,
\* and the list of the first still reads get, post
C29_Witness ==
    \E i, j \in Processed :
        /\ i < j
        /\ ~routes[i].isMiddleware /\ ~routes[j].isMiddleware
        /\ routes[i].path = routes[j].path
        /\ modules[i] = {"POST", "GET", "default"}
        /\ modules[j] = {"default", "helper"}
        /\ OpsOf(i, "registerDefaultHandler")[1].methods = <<"get", "post">>
        /\ OpsOf(j, "registerDefaultHandler")[1].methods = <<>>

(***************************************************************************)
(* C30: createRouter settles when its imports settle                       *)
(***************************************************************************)
Settled == pc \in {"done", "rejected"}

====
